---- MODULE Spec2Model ----
(***************************************************************************)
(* Model of rp_handler.py: the Deforum CLI runner.                         *)
(*   - the schedule normalizer (_sched and build_deforum_job's inner S)    *)
(*   - upload_to_vercel_blob, one step per transport attempt               *)
(*   - handler: build job -> run_via_launch -> newest_video -> upload      *)
(* Text is modelled as a sequence of one-character strings, so that        *)
(* strip() and the "0:(...)" wrapping are computed, not assumed.           *)
(***************************************************************************)
EXTENDS Integers, Sequences, FiniteSets, TLC

\* ------------------------------------------------------------------ bounds
MaxLen == 4
MaxNum == 11

MaxRuns == 2

VARIABLES
    \* schedule normalizer under test: function, argument, default, results
    sFn, sVal, sDef, sOut, sOut2, sPc,
    \* process environment (os.getenv): TRUE when the variable is set, non-empty
    proxy_url, token, public_base,
    \* upload_to_vercel_blob: position, path.exists(), the attempts list, the
    \* requests issued on the network, the returned dict
    upPc, file_exists, attempts, requests, outcome,
    \* handler: position, number of the run, wall clock, locals, file system
    pc, runNo, clock, inp, job, files, tmpfiles, cfg_path, t_start,
    res, picked, uploaded, out, raised

schedVars == <<sFn, sVal, sDef, sOut, sOut2, sPc>>
envVars == <<proxy_url, token, public_base>>
uploadVars == <<upPc, file_exists, attempts, requests, outcome>>
handlerVars ==
    <<pc, runNo, clock, inp, job, files, tmpfiles, cfg_path, t_start,
      res, picked, uploaded, out, raised>>
vars == <<schedVars, envVars, uploadVars, handlerVars>>

\* ------------------------------------------------------------------ text helpers
Chars == {":", "(", ")", " ", "1"}

Strs == UNION {[1..k -> Chars] : k \in 0..MaxLen}

IsSpace(c) == c = " "

RECURSIVE lstrip(_)
lstrip(s) == IF s # <<>> /\ IsSpace(Head(s)) THEN lstrip(Tail(s)) ELSE s

RECURSIVE rstrip(_)
rstrip(s) ==
    IF s # <<>> /\ IsSpace(s[Len(s)]) THEN rstrip(SubSeq(s, 1, Len(s) - 1)) ELSE s

\* str.strip(): leading and trailing whitespace removed
strip(s) == rstrip(lstrip(s))

\* c in s
Contains(s, c) == \E i \in 1..Len(s) : s[i] = c

DigitChars == <<"0", "1", "2", "3", "4", "5", "6", "7", "8", "9">>

\* str(n) of a non-negative int
RECURSIVE StrOfNum(_)
StrOfNum(n) ==
    IF n < 10 THEN <<DigitChars[n + 1]>>
    ELSE StrOfNum(n \div 10) \o <<DigitChars[(n % 10) + 1]>>

\* f"0:({x})"
Wrap(s) == <<"0", ":", "(">> \o s \o <<")">>

\* A schedule argument: None, a number, or a string.
NoneVal == [kind |-> "none", n |-> 0, s |-> <<>>]
NumVal(n) == [kind |-> "num", n |-> n, s |-> <<>>]
StrVal(s) == [kind |-> "str", n |-> 0, s |-> s]

SchedVals ==
    {NoneVal} \cup {NumVal(n) : n \in 0..MaxNum} \cup {StrVal(s) : s \in Strs}

\* The default schedules the builder passes: "0:(1.0)"-shaped literals.
Defaults ==
    { <<"0", ":", "(", "0", ".", "9", "5", ")">>,
      <<"0", ":", "(", "6", "4", ")">>,
      <<"0", ":", "(", "0", ")">> }

\* ------------------------------------------------------------------ schedule normalizer
\* mutant: the pre-formatted test is lost and every string is wrapped
_sched_always_wrap(val, default_str) ==
    IF val.kind = "none" \/ (val.kind = "str" /\ val.s = <<>>) THEN default_str
    ELSE IF val.kind = "num" THEN Wrap(StrOfNum(val.n))
    ELSE Wrap(strip(val.s))

_sched(val, default_str) ==
    IF val.kind = "none" \/ (val.kind = "str" /\ val.s = <<>>) THEN default_str
    ELSE IF val.kind = "num" THEN Wrap(StrOfNum(val.n))
    ELSE LET s == strip(val.s)
         IN  IF Contains(s, ":") /\ Contains(s, "(") /\ Contains(s, ")")
             THEN s ELSE Wrap(s)

\* build_deforum_job's inner S: the same body as _sched
S(x, default_str) ==
    IF x.kind = "none" \/ (x.kind = "str" /\ x.s = <<>>) THEN default_str
    ELSE IF x.kind = "num" THEN Wrap(StrOfNum(x.n))
    ELSE LET s == strip(x.s)
         IN  IF Contains(s, ":") /\ Contains(s, "(") /\ Contains(s, ")")
             THEN s ELSE Wrap(s)

Normalize(fn, x, d) == IF fn = "_sched" THEN _sched(x, d) ELSE S(x, d)

\* ------------------------------------------------------------------ upload_to_vercel_blob
\* An HTTP exchange as the code sees it: the request raised (exc), or a response
\* with a status code, a content-type header that starts with application/json
\* or not (ctypeJson), a body that r.json() parses to a dict, to some other JSON
\* value ("other"), or fails to parse ("invalid"), the value of the dict's "url"
\* key ("None" when the key is absent), and r.text ("" for an empty body).
Statuses == {200, 201, 500}

Bodies ==
    { [ctypeJson |-> TRUE,  json |-> "dict",    jurl |-> "https://blob/u", text |-> "{json}"],
      [ctypeJson |-> TRUE,  json |-> "dict",    jurl |-> "None",           text |-> "{json}"],
      [ctypeJson |-> TRUE,  json |-> "dict",    jurl |-> "",               text |-> "{json}"],
      [ctypeJson |-> FALSE, json |-> "dict",    jurl |-> "https://blob/u", text |-> "{json}"],
      [ctypeJson |-> TRUE,  json |-> "other",   jurl |-> "None",           text |-> "[json]"],
      [ctypeJson |-> TRUE,  json |-> "invalid", jurl |-> "None",           text |-> "text"],
      [ctypeJson |-> FALSE, json |-> "invalid", jurl |-> "None",           text |-> "text"],
      [ctypeJson |-> FALSE, json |-> "invalid", jurl |-> "None",           text |-> ""] }

Responses ==
    { [exc |-> TRUE, status |-> 0, body |-> b] :
        b \in {[ctypeJson |-> FALSE, json |-> "invalid", jurl |-> "None", text |-> ""]} }
    \cup { [exc |-> FALSE, status |-> st, body |-> b] : st \in Statuses, b \in Bodies }

\* r.status_code in (200, 201)
StatusOk(st) == st \in {200, 201}

\* not x, for a str-or-None value
Falsy(u) == u \in {"None", ""}

\* {"method": m, "status": ..., "body_tail": ...} and {"method": m, "error": str(e)}
StatusAttempt(m, st) ==
    [method |-> m, keys |-> {"method", "status", "body_tail"}, status |-> st]
ErrorAttempt(m) == [method |-> m, keys |-> {"method", "error"}, status |-> 0]

\* The returned dicts; keys is the set of keys the dict has.
NoOutcome ==
    [keys |-> {}, ok |-> FALSE, reason |-> "None", url |-> "None", via |-> "None",
     attempts |-> <<>>]
FileMissing ==
    [keys |-> {"ok", "reason"}, ok |-> FALSE, reason |-> "file_missing",
     url |-> "None", via |-> "None", attempts |-> <<>>]
MissingEnv(att) ==
    [keys |-> {"ok", "reason", "attempts"}, ok |-> FALSE, reason |-> "missing_env",
     url |-> "None", via |-> "None", attempts |-> att]
Uploaded(u, v) ==
    [keys |-> {"ok", "url", "key", "via"}, ok |-> TRUE, reason |-> "None",
     url |-> u, via |-> v, attempts |-> <<>>]
AllAttemptsFailed(att) ==
    [keys |-> {"ok", "reason", "attempts", "suggest"}, ok |-> FALSE,
     reason |-> "all_attempts_failed", url |-> "None", via |-> "None",
     attempts |-> att]

\* mutant: the two direct variants are tried in the other order
VariantsSwapped == <<"PUT-leading-slash", "PUT">>

\* for variant in ("PUT", "PUT-leading-slash")
Variants == <<"PUT", "PUT-leading-slash">>

\* the proxy branch's try block: "ok" with the url, or "raise", or "status"
ProxyResult(r) ==
    IF r.exc THEN [kind |-> "raise", url |-> "None"]
    ELSE IF StatusOk(r.status) THEN
        IF r.body.ctypeJson
        THEN IF r.body.json = "dict" THEN [kind |-> "ok", url |-> r.body.jurl]
             ELSE [kind |-> "raise", url |-> "None"]
        ELSE [kind |-> "ok", url |-> r.body.text]
    ELSE [kind |-> "status", url |-> "None"]

\* a direct variant's try block
DirectResult(r) ==
    IF r.exc THEN [kind |-> "raise", url |-> "None"]
    ELSE IF StatusOk(r.status) THEN
        IF r.body.json = "other" THEN [kind |-> "raise", url |-> "None"]
        ELSE LET body_url == IF r.body.json = "dict" THEN r.body.jurl ELSE r.body.text
                 url_out == IF Falsy(body_url) /\ public_base
                            THEN "public_base/key" ELSE body_url
             IN  [kind |-> "ok", url |-> IF Falsy(url_out) THEN "request_url" ELSE url_out]
    ELSE [kind |-> "status", url |-> "None"]

\* lines 33-46: attempts = [], the existence test, the environment
UploadBegin ==
    /\ upPc = "begin"
    /\ IF ~file_exists
       THEN /\ outcome' = FileMissing
            /\ upPc' = "done"
       ELSE /\ outcome' = outcome
            /\ upPc' = IF proxy_url THEN "proxy" ELSE "token"
    /\ UNCHANGED <<file_exists, attempts, requests>>
    /\ UNCHANGED <<schedVars, envVars, handlerVars>>

\* lines 48-62: the proxy POST
UploadProxy ==
    /\ upPc = "proxy"
    /\ \E r \in Responses :
        LET pr == ProxyResult(r) IN
        /\ requests' = Append(requests, "proxy")
        /\ IF pr.kind = "ok"
           THEN /\ outcome' = Uploaded(pr.url, "proxy")
                /\ upPc' = "done"
                /\ attempts' = attempts
           ELSE /\ attempts' = Append(attempts,
                                  IF pr.kind = "status"
                                  THEN StatusAttempt("proxy", r.status)
                                  ELSE ErrorAttempt("proxy"))
                /\ upPc' = "token"
                /\ outcome' = outcome
    /\ UNCHANGED file_exists
    /\ UNCHANGED <<schedVars, envVars, handlerVars>>

\* lines 64-65: the token test
UploadToken ==
    /\ upPc = "token"
    /\ IF ~token
       THEN /\ outcome' = MissingEnv(attempts)
            /\ upPc' = "done"
       ELSE /\ outcome' = outcome
            /\ upPc' = Variants[1]
    /\ UNCHANGED <<file_exists, attempts, requests>>
    /\ UNCHANGED <<schedVars, envVars, handlerVars>>

\* lines 67-99: one iteration of the loop over the direct variants, and the
\* final return once the last variant has failed
UploadDirect ==
    /\ \E i \in 1..Len(Variants) :
        /\ upPc = Variants[i]
        /\ \E r \in Responses :
            LET dr == DirectResult(r)
                att == Append(attempts,
                              IF dr.kind = "status"
                              THEN StatusAttempt(Variants[i], r.status)
                              ELSE ErrorAttempt(Variants[i]))
            IN
            /\ requests' = Append(requests, Variants[i])
            /\ IF dr.kind = "ok"
               THEN /\ outcome' = Uploaded(dr.url, "api")
                    /\ upPc' = "done"
                    /\ attempts' = attempts
               ELSE /\ attempts' = att
                    /\ IF i < Len(Variants)
                       THEN /\ upPc' = Variants[i + 1]
                            /\ outcome' = outcome
                       ELSE /\ upPc' = "done"
                            /\ outcome' = AllAttemptsFailed(att)
    /\ UNCHANGED file_exists
    /\ UNCHANGED <<schedVars, envVars, handlerVars>>

NextUpload == UploadBegin \/ UploadProxy \/ UploadToken \/ UploadDirect

\* ------------------------------------------------------------------ _resolve_cn
\* _get_cn_lists(): empty when the A1111 API does not answer
CnLists ==
    { [models |-> {}, modules |-> {}],
      [models |-> {"control_v11p_sd15_openpose"}, modules |-> {"openpose_full"}] }

\* for cand in cands: if cand in avail: return cand -- else keep the preference
RECURSIVE FirstAvailable(_, _, _)
FirstAvailable(cands, avail, prefer) ==
    IF cands = <<>> THEN prefer
    ELSE IF Head(cands) \in avail THEN Head(cands)
    ELSE FirstAvailable(Tail(cands), avail, prefer)

\* model_in / module_in are "None" when the request gives none; the
\* CN_MODEL_NAME / CN_MODULE_NAME overrides are unset
_resolve_cn(model_in, module_in, lists) ==
    LET prefer_model == IF Falsy(model_in)
                        THEN "control_sd15_animal_openpose_fp16" ELSE model_in
        prefer_module == IF Falsy(module_in) THEN "animal_openpose" ELSE module_in
    IN  [model |->
            IF lists.models # {} /\ prefer_model \notin lists.models
            THEN FirstAvailable(<<prefer_model, "control_sd15_animal_openpose_fp16",
                                  "control_v11p_sd15_openpose">>,
                                lists.models, prefer_model)
            ELSE prefer_model,
         module |->
            IF lists.modules # {} /\ prefer_module \notin lists.modules
            THEN FirstAvailable(<<prefer_module, "animal_openpose", "openpose_full",
                                  "openpose">>,
                                lists.modules, prefer_module)
            ELSE prefer_module]

\* ------------------------------------------------------------------ build_deforum_job
\* The "controlnet" sub-mapping of a request: given is the set of keys it
\* holds (empty for an absent or empty mapping), the other fields their values.
Cn(given, enabled, weight, vid_path) ==
    [given |-> given, enabled |-> enabled, weight |-> weight, vid_path |-> vid_path]

CnInputs ==
    { Cn({}, FALSE, NoneVal, ""),
      Cn({"enabled"}, FALSE, NoneVal, ""),
      Cn({"enabled"}, TRUE, NoneVal, ""),
      Cn({"enabled", "weight"}, TRUE, NumVal(1), ""),
      Cn({"enabled", "vid_path"}, TRUE, NoneVal, "/pose.mp4"),
      Cn({"weight", "vid_path"}, FALSE, StrVal(<<"1", ":", "(", "1", ")">>), "/pose.mp4") }

\* event["input"]: width is "absent", a number, or text int() rejects
Inputs ==
    [controlnet : CnInputs, upload : BOOLEAN, width : {"absent", "512", "abc"}]

NoInput == [controlnet |-> Cn({}, FALSE, NoneVal, ""), upload |-> FALSE, width |-> "absent"]

\* cn.get(k, dflt)
CnGet(cn, k, dflt) == IF k \in cn.given THEN cn[k] ELSE dflt

\* bool(cn.get("enabled", False))
CnEnabled(cn) == CnGet(cn, "enabled", FALSE)

\* the keys of the controlnet_args literal, lines 174-196
CnBaseKeys ==
    { "cn_1_enabled", "cn_1_model", "cn_1_module", "cn_1_weight",
      "cn_1_weight_schedule_series", "cn_1_guidance_start", "cn_1_guidance_end",
      "cn_1_processor_res", "cn_1_annotator_resolution", "cn_1_threshold_a",
      "cn_1_threshold_b", "cn_1_guess_mode", "cn_1_resize_mode",
      "cn_1_control_mode", "cn_1_low_vram", "cn_1_pixel_perfect",
      "cn_1_loopback_mode", "cn_1_overwrite_frames", "cn_1_invert_image",
      "cn_1_rgbbgr_mode", "cn_1_mask_vid_path" }

D_095 == <<"0", ":", "(", "0", ".", "9", "5", ")">>
D_10 == <<"0", ":", "(", "1", ".", "0", ")">>
D_00 == <<"0", ":", "(", "0", ".", "0", ")">>
D_640 == <<"0", ":", "(", "6", "4", "0", ")">>
D_64 == <<"0", ":", "(", "6", "4", ")">>
D_0 == <<"0", ":", "(", "0", ")">>
D_06 == <<"0", ":", "(", "0", ".", "6", ")">>

\* lines 167-198
controlnet_args(cn, lists) ==
    LET cn_1_vid_path == CnGet(cn, "vid_path", "")
        r == _resolve_cn(CnGet(cn, "model", "None"), CnGet(cn, "module", "None"), lists)
        keys == CnBaseKeys \cup (IF cn_1_vid_path # "" THEN {"cn_1_vid_path"} ELSE {})
    IN  [k \in keys |->
            CASE k = "cn_1_enabled" -> CnEnabled(cn)
              [] k = "cn_1_model" -> r.model
              [] k = "cn_1_module" -> r.module
              [] k = "cn_1_weight" -> S(CnGet(cn, "weight", NoneVal), D_095)
              [] k = "cn_1_weight_schedule_series" ->
                    S(CnGet(cn, "weight_schedule_series", NoneVal), D_10)
              [] k = "cn_1_guidance_start" -> S(CnGet(cn, "guidance_start", NoneVal), D_00)
              [] k = "cn_1_guidance_end" -> S(CnGet(cn, "guidance_end", NoneVal), D_10)
              [] k = "cn_1_processor_res" -> S(CnGet(cn, "processor_res", NoneVal), D_640)
              [] k = "cn_1_annotator_resolution" ->
                    S(CnGet(cn, "annotator_resolution", NoneVal), D_640)
              [] k = "cn_1_threshold_a" -> S(CnGet(cn, "threshold_a", NoneVal), D_64)
              [] k = "cn_1_threshold_b" -> S(CnGet(cn, "threshold_b", NoneVal), D_64)
              [] k = "cn_1_guess_mode" -> S(CnGet(cn, "guess_mode", NoneVal), D_0)
              [] k = "cn_1_resize_mode" -> CnGet(cn, "resize_mode", "Inner Fit (Scale to Fit)")
              [] k = "cn_1_control_mode" -> CnGet(cn, "control_mode", "Balanced")
              [] k = "cn_1_low_vram" -> CnGet(cn, "low_vram", FALSE)
              [] k = "cn_1_pixel_perfect" -> CnGet(cn, "pixel_perfect", TRUE)
              [] k = "cn_1_loopback_mode" -> FALSE
              [] k = "cn_1_overwrite_frames" -> TRUE
              [] k = "cn_1_invert_image" -> FALSE
              [] k = "cn_1_rgbbgr_mode" -> FALSE
              [] k = "cn_1_mask_vid_path" -> ""
              [] k = "cn_1_vid_path" -> cn_1_vid_path]

\* int(inp.get("width", 512)) raises ValueError
BuildRaises(i) == i.width = "abc"

\* no job built yet
NoJob == [outdir |-> ""]

\* lines 142-244: the job dict for a request that gives controlnet, upload and
\* width only (the prompt texts and cfg_scale, which nothing reads, left out)
build_deforum_job(i, lists) ==
    [ seed |-> 42,
      max_frames |-> 96,
      W |-> 512,
      H |-> 512,
      fps |-> 12,
      sampler |-> "Euler a",
      steps |-> 28,
      animation_mode |-> "2D",
      angle |-> D_0,
      zoom |-> D_10,
      translation_x |-> D_0,
      translation_y |-> D_0,
      translation_z |-> D_0,
      use_init |-> FALSE,
      init_image |-> "",
      image_strength_schedule |-> S(NoneVal, D_06),
      strength_schedule |-> S(NoneVal, D_06),
      use_parseq |-> FALSE,
      make_video |-> TRUE,
      save_video |-> TRUE,
      outdir |-> "/workspace/outputs/deforum",
      outdir_video |-> "/workspace/outputs/deforum",
      controlnet_args |-> controlnet_args(i.controlnet, lists) ]

\* ------------------------------------------------------------------ newest_video
NoFile == [run |-> 0, mtime |-> 0]

\* lines 21-30: the candidate with the largest st_mtime, None when there is none
newest_video(fs) ==
    IF fs = {} THEN NoFile
    ELSE CHOOSE f \in fs : \A g \in fs : g.mtime <= f.mtime

\* ------------------------------------------------------------------ handler
NoRes == [returned |-> FALSE, retcode |-> 0]
Skipped ==
    [keys |-> {"ok", "reason"}, ok |-> FALSE, reason |-> "skipped",
     url |-> "None", via |-> "None", attempts |-> <<>>]
NoOut == [returned |-> FALSE, ok |-> FALSE, status |-> "None", picked_file |-> NoFile,
          uploaded |-> NoOutcome]

ExitCodes == {0, 1}

\* mutant: a failed upload fails the job
OverallOkGated(r, p, u) == r.retcode = 0 /\ p # NoFile /\ (u.reason = "skipped" \/ u.ok)

\* line 306: ok = (res["retcode"] == 0) and bool(picked)
OverallOk(r, p, u) == r.retcode = 0 /\ p # NoFile

\* lines 277-284: a new invocation, some time after the last one; its locals
\* start fresh; build_deforum_job
HandlerBuild ==
    /\ pc \in {"idle", "done", "raised"}
    /\ runNo < MaxRuns
    /\ runNo' = runNo + 1
    /\ \E i \in Inputs, lists \in CnLists :
        /\ inp' = i
        /\ IF BuildRaises(i)
           THEN /\ pc' = "raised"
                /\ raised' = "ValueError"
                /\ job' = NoJob
           ELSE /\ pc' = "built"
                /\ raised' = "None"
                /\ job' = build_deforum_job(i, lists)
    /\ cfg_path' = 0
    /\ t_start' = 0
    /\ res' = NoRes
    /\ picked' = NoFile
    /\ uploaded' = NoOutcome
    /\ out' = NoOut
    /\ upPc' = "idle"
    /\ file_exists' = FALSE
    /\ attempts' = <<>>
    /\ requests' = <<>>
    /\ outcome' = NoOutcome
    /\ clock' = clock + 1
    /\ UNCHANGED <<files, tmpfiles>>
    /\ UNCHANGED <<schedVars, envVars>>

\* lines 247-273: the temp file, then subprocess.run: the engine exits with a
\* code, or runs past the timeout (TimeoutExpired), or cannot be started
\* (OSError); it may have written a media file before it stopped
run_via_launch ==
    /\ pc = "built"
    /\ t_start' = clock
    /\ clock' = clock + 1
    /\ cfg_path' = runNo
    /\ tmpfiles' = tmpfiles \cup {runNo}
    /\ \E how \in {"exit", "TimeoutExpired", "OSError"}, code \in ExitCodes,
          wrote \in BOOLEAN :
        /\ how = "OSError" => ~wrote
        /\ how # "exit" => code = 0
        /\ files' = IF wrote THEN files \cup {[run |-> runNo, mtime |-> clock + 1]}
                    ELSE files
        /\ IF how = "exit"
           THEN /\ res' = [returned |-> TRUE, retcode |-> code]
                /\ pc' = "ran"
                /\ raised' = raised
           ELSE /\ res' = res
                /\ pc' = "raised"
                /\ raised' = how
    /\ UNCHANGED <<runNo, inp, job, picked, uploaded, out>>
    /\ UNCHANGED <<schedVars, envVars, uploadVars>>

\* lines 288-298: newest_video, then the call of upload_to_vercel_blob
PickVideo ==
    /\ pc = "ran"
    /\ LET p == newest_video(files) IN
        /\ picked' = p
        /\ IF p # NoFile /\ inp.upload
           THEN /\ pc' = "uploading"
                /\ upPc' = "begin"
                /\ file_exists' = TRUE
           ELSE /\ pc' = "picked"
                /\ upPc' = upPc
                /\ file_exists' = file_exists
    /\ uploaded' = Skipped
    /\ UNCHANGED <<attempts, requests, outcome>>
    /\ UNCHANGED <<runNo, clock, inp, job, files, tmpfiles, cfg_path, t_start,
                   res, out, raised>>
    /\ UNCHANGED <<schedVars, envVars>>

\* lines 298-340: the upload's result, ok, the result record
HandlerFinish ==
    /\ \/ pc = "picked"
       \/ pc = "uploading" /\ upPc = "done"
    /\ LET u == IF pc = "uploading" THEN outcome ELSE uploaded
           ok == OverallOk(res, picked, u)
       IN  /\ uploaded' = u
           /\ out' = [returned |-> TRUE, ok |-> ok,
                      status |-> IF ok THEN "COMPLETED" ELSE "FAILED",
                      picked_file |-> picked, uploaded |-> u]
    /\ pc' = "done"
    /\ UNCHANGED <<runNo, clock, inp, job, files, tmpfiles, cfg_path, t_start,
                   res, picked, raised>>
    /\ UNCHANGED <<schedVars, envVars, uploadVars>>

NextHandler == HandlerBuild \/ run_via_launch \/ PickVideo \/ HandlerFinish

\* ------------------------------------------------------------------ specifications
SchedIdle ==
    /\ sFn = "_sched"
    /\ sVal = NoneVal
    /\ sDef = D_0
    /\ sOut = <<>>
    /\ sOut2 = <<>>
    /\ sPc = "off"

InitEnv ==
    /\ proxy_url \in BOOLEAN
    /\ token \in BOOLEAN
    /\ public_base \in BOOLEAN

UploadIdle ==
    /\ upPc = "idle"
    /\ file_exists = FALSE
    /\ attempts = <<>>
    /\ requests = <<>>
    /\ outcome = NoOutcome

HandlerIdle ==
    /\ pc = "idle"
    /\ runNo = 0
    /\ clock = 1
    /\ inp = NoInput
    /\ job = NoJob
    /\ files = {}
    /\ tmpfiles = {}
    /\ cfg_path = 0
    /\ t_start = 0
    /\ res = NoRes
    /\ picked = NoFile
    /\ uploaded = NoOutcome
    /\ out = NoOut
    /\ raised = "None"

\* the worker: handler invocations one after another, sharing the file system
Init == SchedIdle /\ InitEnv /\ UploadIdle /\ HandlerIdle

Next == NextHandler \/ NextUpload

Spec == Init /\ [][Next]_vars

\* upload_to_vercel_blob called on its own, on a path that exists or not
InitUpload ==
    /\ SchedIdle
    /\ InitEnv
    /\ HandlerIdle
    /\ upPc = "begin"
    /\ file_exists \in BOOLEAN
    /\ attempts = <<>>
    /\ requests = <<>>
    /\ outcome = NoOutcome

SpecUpload == InitUpload /\ [][NextUpload]_vars

EnvIdle ==
    /\ proxy_url = FALSE
    /\ token = FALSE
    /\ public_base = FALSE

\* the normalizer applied to every argument and default, once and twice
InitSched ==
    /\ EnvIdle /\ UploadIdle /\ HandlerIdle
    /\ sFn \in {"_sched", "S"}
    /\ sVal \in SchedVals
    /\ sDef \in Defaults
    /\ sOut = <<>>
    /\ sOut2 = <<>>
    /\ sPc = "in"

\* normalize(x, d)
SchedApply ==
    /\ sPc = "in"
    /\ sOut' = Normalize(sFn, sVal, sDef)
    /\ sPc' = "once"
    /\ UNCHANGED <<sFn, sVal, sDef, sOut2>>
    /\ UNCHANGED <<envVars, uploadVars, handlerVars>>

\* normalize(normalize(x, d), d)
SchedReapply ==
    /\ sPc = "once"
    /\ sOut2' = Normalize(sFn, StrVal(sOut), sDef)
    /\ sPc' = "twice"
    /\ UNCHANGED <<sFn, sVal, sDef, sOut>>
    /\ UNCHANGED <<envVars, uploadVars, handlerVars>>

NextSched == SchedApply \/ SchedReapply

SpecSched == InitSched /\ [][NextSched]_vars

\* ------------------------------------------------------------------ claims on handler
\* the handler has returned its result record
Returned == pc = "done" /\ out.returned

\* C1: ok is true exactly when the engine returned 0 and an artifact was
\* picked, whatever the upload did, and the status is COMPLETED exactly when
\* ok is true, FAILED otherwise.
C1_OkIsExecAndArtifact ==
    Returned =>
        /\ out.ok = (res.retcode = 0 /\ picked # NoFile)
        /\ out.status = IF out.ok THEN "COMPLETED" ELSE "FAILED"
        /\ out.status = "COMPLETED" <=> (res.retcode = 0 /\ picked # NoFile)

C1_Witness ==
    /\ Returned
    /\ out.ok
    /\ out.status = "COMPLETED"
    /\ out.uploaded.reason = "all_attempts_failed"

\* C2: an engine timeout or a launch exception is captured in the result:
\* the handler is left by an exception only on malformed request input.
C2_EngineFailureCaptured == pc = "raised" => raised = "ValueError"

\* run_via_launch has been entered and left, by return or by exception
LaunchExited ==
    \/ pc \in {"ran", "picked", "uploading", "done"}
    \/ pc = "raised" /\ raised \in {"TimeoutExpired", "OSError"}

\* C3: once run_via_launch has exited, on any path, the temporary file it
\* created no longer exists.
C3_TempFileDeleted == LaunchExited => cfg_path \notin tmpfiles

\* C4: the ControlNet block of the built job is absent when the toggle is
\* off and holds every required key when the toggle is on.
C4_BlockAllOrNothing ==
    job # NoJob =>
        IF CnEnabled(inp.controlnet)
        THEN /\ "controlnet_args" \in DOMAIN job
             /\ CnBaseKeys \subseteq DOMAIN job.controlnet_args
        ELSE "controlnet_args" \notin DOMAIN job

\* C10: a run that reports ok:true picked a media file written by its own
\* engine execution, modified no earlier than that execution's start.
C10_PickedIsOwnArtifact ==
    (Returned /\ out.ok) =>
        /\ out.picked_file.run = runNo
        /\ out.picked_file.mtime >= t_start

\* ------------------------------------------------------------------ claims on the upload
Rank(m) == CASE m = "proxy" -> 1 [] m = "PUT" -> 2 [] m = "PUT-leading-slash" -> 3

Via(m) == IF m = "proxy" THEN "proxy" ELSE "api"

\* C5: the requests of one call go out in the order proxy, PUT,
\* PUT-leading-slash, each at most once, the proxy only when configured; a
\* request goes out only after every earlier one was recorded as failed, and
\* a success is the last request of the call and names the transport.
C5_OrderedFirstSuccessWins ==
    /\ \A i, j \in 1..Len(requests) : i < j => Rank(requests[i]) < Rank(requests[j])
    /\ (\E i \in 1..Len(requests) : requests[i] = "proxy") => proxy_url
    /\ \A i \in 1..Len(attempts) :
          i <= Len(requests) /\ attempts[i].method = requests[i]
    /\ Len(requests) \in {Len(attempts), Len(attempts) + 1}
    /\ outcome.ok <=> Len(requests) = Len(attempts) + 1
    /\ outcome.ok => /\ upPc = "done"
                     /\ outcome.via = Via(requests[Len(requests)])

C5_Witness ==
    /\ upPc = "done"
    /\ outcome.ok
    /\ requests = <<"proxy", "PUT", "PUT-leading-slash">>
    /\ Len(attempts) = 2
    /\ outcome.via = "api"

\* C6: the file exists, something is configured and every configured
\* strategy failed: the outcome is all_attempts_failed, with one diagnostic
\* per failed attempt in order, and the remediation hints.
C6_AllAttemptsFailed ==
    (upPc = "done" /\ file_exists /\ (proxy_url \/ token) /\ ~outcome.ok) =>
        /\ outcome.reason = "all_attempts_failed"
        /\ "attempts" \in outcome.keys
        /\ Len(outcome.attempts) = Len(requests)
        /\ \A i \in 1..Len(requests) : outcome.attempts[i].method = requests[i]
        /\ "suggest" \in outcome.keys

\* C7: an outcome file_missing or missing_env means no request went out and
\* no attempt was recorded.
C7_PreconditionsUpFront ==
    (upPc = "done" /\ outcome.reason \in {"file_missing", "missing_env"}) =>
        /\ requests = <<>>
        /\ attempts = <<>>
        /\ outcome.attempts = <<>>

\* C9: the outcome carries a non-null, non-empty url exactly when ok is true.
C9_UrlIffOk ==
    upPc = "done" => (outcome.ok <=> ("url" \in outcome.keys /\ ~Falsy(outcome.url)))

\* ------------------------------------------------------------------ claims on the normalizer
\* a string with a colon and a "(" somewhere before a ")"
HasColon(s) == Contains(s, ":")
BalancedPair(s) == \E i, j \in 1..Len(s) : i < j /\ s[i] = "(" /\ s[j] = ")"
PreFormatted(v) == v.kind = "str" /\ HasColon(v.s) /\ BalancedPair(v.s)

====
